---- MODULE Spec2Model ----
(***************************************************************************)
(* Model of src/demo_1.py: class AShareQuantStrategy.                      *)
(*                                                                         *)
(* Prices are integers in tenths of a currency unit (13.90 is 139).        *)
(* Indicator cells are exact: a defined cell is the mixed number           *)
(* whole + num/den in lowest terms, an undefined cell is NaN.  The cells   *)
(* of the MACD, Bollinger upper/lower and KDJ columns record only whether  *)
(* the cell is defined: their values (square roots, powers of 2/13, 2/27)  *)
(* are not representable and no property below depends on them.            *)
(***************************************************************************)
EXTENDS Integers, Sequences, FiniteSets, TLC

VARIABLES source, data, stock_name, pc, trace, ret, printed, calcs

vars == <<source, data, stock_name, pc, trace, ret, printed, calcs>>

----------------------------------------------------------------------------
(* Bounds of the model                                                     *)

MaxLen == 61
MaxCalcs == 2

(* Program constants                                                       *)

MA5Period == 5
MA10Period == 10
MA20Period == 20
MA60Period == 60
RSIPeriod == 14
MACDFast == 12
MACDSlow == 26
MACDSignalPeriod == 9
BBPeriod == 20
FastKPeriod == 9
SlowKPeriod == 3
SlowDPeriod == 3
Overbought == 70
Oversold == 30

symbol == "600519"

----------------------------------------------------------------------------
(* Exact arithmetic on cells                                               *)

RECURSIVE GCD(_, _)
GCD(a, b) == IF b = 0 THEN a ELSE GCD(b, a % b)

NaN == [nan |-> TRUE, whole |-> 0, num |-> 0, den |-> 1]

Num(w, n, d) == [nan |-> FALSE, whole |-> w, num |-> n, den |-> d]

Whole(w) == Num(w, 0, 1)

\* total / p for total >= 0, p > 0
Div(total, p) ==
    LET r == total % p
        g == GCD(p, r)
    IN  Num(total \div p, r \div g, p \div g)

\* 100.0 * (a / b) for 0 <= a <= b, b > 0, by two steps of long division
Times100(a, b) ==
    LET q1 == (10 * a) \div b
        r1 == (10 * a) % b
        q2 == (10 * r1) \div b
        r2 == (10 * r1) % b
        g  == GCD(b, r2)
    IN  Num(10 * q1 + q2, r2 \div g, b \div g)

\* x < y on defined cells
Less(x, y) ==
    \/ x.whole < y.whole
    \/ x.whole = y.whole /\ x.num * y.den < y.num * x.den

\* Python float comparison: any comparison with NaN is False
Gt(x, y) == ~x.nan /\ ~y.nan /\ Less(y, x)

\* the non-strict comparisons, used by the variants of Trend and Zone only
Ge(x, y) == ~x.nan /\ ~y.nan /\ ~Less(x, y)

Le(x, y) == ~x.nan /\ ~y.nan /\ ~Less(y, x)

Lt(x, y) == ~x.nan /\ ~y.nan /\ Less(x, y)

NaNs(k) == [i \in 1..k |-> NaN]

RECURSIVE SumSeq(_, _, _)
SumSeq(s, lo, hi) == IF lo > hi THEN 0 ELSE s[hi] + SumSeq(s, lo, hi - 1)

----------------------------------------------------------------------------
(* talib.SMA: running total over the trailing window                       *)

RECURSIVE SMA_run(_, _, _, _)
SMA_run(inReal, timeperiod, i, periodTotal) ==
    IF i > Len(inReal) THEN <<>>
    ELSE LET tempReal == periodTotal + inReal[i]
         IN  <<Div(tempReal, timeperiod)>>
               \o SMA_run(inReal, timeperiod, i + 1,
                          tempReal - inReal[i - timeperiod + 1])

\* variant: the running total is not seeded with the first timeperiod-1 closes
SMA_unseeded(inReal, timeperiod) ==
    IF Len(inReal) < timeperiod THEN NaNs(Len(inReal))
    ELSE NaNs(timeperiod - 1) \o SMA_run(inReal, timeperiod, timeperiod, 0)

SMA(inReal, timeperiod) ==
    IF Len(inReal) < timeperiod THEN NaNs(Len(inReal))
    ELSE NaNs(timeperiod - 1)
           \o SMA_run(inReal, timeperiod, timeperiod,
                      SumSeq(inReal, 1, timeperiod - 1))

----------------------------------------------------------------------------
(* talib.RSI: Wilder smoothing.  prevGain = G/D and prevLoss = L/D; the    *)
(* triple is kept in lowest terms.                                         *)

Reduce(G, L, D) ==
    LET g == GCD(GCD(D, G), L)
    IN  [G |-> G \div g, L |-> L \div g, D |-> D \div g]

\* variant: the share of the losses instead of the gains
RSICell_loss(s) ==
    IF s.G + s.L = 0 THEN Whole(0)
    ELSE LET g == GCD(s.G + s.L, s.L)
         IN  Times100(s.L \div g, (s.G + s.L) \div g)

RSICell(s) ==
    IF s.G + s.L = 0 THEN Whole(0)
    ELSE LET g == GCD(s.G + s.L, s.G)
         IN  Times100(s.G \div g, (s.G + s.L) \div g)

RECURSIVE RSISeed(_, _, _, _)
\* sums of the gains and losses of the differences at positions lo..hi
RSISeed(inReal, lo, hi, acc) ==
    IF lo > hi THEN acc
    ELSE LET tempValue2 == inReal[lo] - inReal[lo - 1]
         IN  RSISeed(inReal, lo + 1, hi,
                     IF tempValue2 < 0
                     THEN [acc EXCEPT !.L = @ - tempValue2]
                     ELSE [acc EXCEPT !.G = @ + tempValue2])

RECURSIVE RSI_run(_, _, _, _)
RSI_run(inReal, timeperiod, today, prev) ==
    IF today > Len(inReal) THEN <<>>
    ELSE LET tempValue2 == inReal[today] - inReal[today - 1]
             G == prev.G * (timeperiod - 1)
                    + (IF tempValue2 < 0 THEN 0 ELSE tempValue2 * prev.D)
             L == prev.L * (timeperiod - 1)
                    + (IF tempValue2 < 0 THEN (0 - tempValue2) * prev.D ELSE 0)
             next == Reduce(G, L, prev.D * timeperiod)
         IN  <<RSICell(next)>> \o RSI_run(inReal, timeperiod, today + 1, next)

RSI(inReal, timeperiod) ==
    IF Len(inReal) <= timeperiod THEN NaNs(Len(inReal))
    ELSE LET sums == RSISeed(inReal, 2, timeperiod + 1, [G |-> 0, L |-> 0])
             seed == Reduce(sums.G, sums.L, timeperiod)
         IN  NaNs(timeperiod) \o <<RSICell(seed)>>
               \o RSI_run(inReal, timeperiod, timeperiod + 2, seed)

----------------------------------------------------------------------------
(* Columns whose cells record definedness only: defined from position      *)
(* lookback + 1 on, all undefined on a shorter input.                      *)

Defined == [nan |-> FALSE]

Undefined == [nan |-> TRUE]

\* variant: the cell at the lookback position is already defined
Warm_early(n, lookback) ==
    [i \in 1..n |-> IF i < lookback THEN Undefined ELSE Defined]

Warm(n, lookback) ==
    [i \in 1..n |-> IF i <= lookback THEN Undefined ELSE Defined]

MACDLookback == (MACDSlow - 1) + (MACDSignalPeriod - 1)

MACD(inReal) ==
    LET out == Warm(Len(inReal), MACDLookback)
    IN  [macd |-> out, macdsignal |-> out, macdhist |-> out]

BBANDS(inReal, timeperiod) ==
    [upper  |-> Warm(Len(inReal), timeperiod - 1),
     middle |-> SMA(inReal, timeperiod),
     lower  |-> Warm(Len(inReal), timeperiod - 1)]

STOCHLookback == (FastKPeriod - 1) + (SlowKPeriod - 1) + (SlowDPeriod - 1)

STOCH(high, low, close) ==
    LET out == Warm(Len(close), STOCHLookback)
    IN  [k |-> out, d |-> out]

\* 3 * k - 2 * d, elementwise; NaN propagates
JLine(k, d) == [i \in 1..Len(k) |-> [nan |-> k[i].nan \/ d[i].nan]]

----------------------------------------------------------------------------
(* The DataSource collaborator (ak.stock_zh_a_hist).  The history of the   *)
(* instrument is fixed for the life of the object: n bars whose closes     *)
(* start at 10.00 and move by slope per bar, with an extra jump on the     *)
(* first and on the last difference; n = 0 is an instrument without bars.  *)
(* Jumps are only fed at the two lengths where RSI and MA20 become         *)
(* defined on the last row: after a first-bar jump on a longer table the   *)
(* Wilder averages no longer fit 32-bit integers.                          *)

Slopes == {-1, 0, 1}

HeadJumps == {-50, 0, 3, 7, 50}

TailJumps == {-50, -7, -3, 0, 50}

CloseAt(f, i) ==
    100 + f.slope * (i - 1)
          + (IF i >= 2 THEN f.head ELSE 0)
          + (IF i >= 2 /\ i = f.n THEN f.tail ELSE 0)

Feeds ==
    {f \in [n : 0..MaxLen, head : HeadJumps, slope : Slopes, tail : TailJumps] :
        /\ f.n = 0 => f.slope = 0
        /\ (f.head # 0 \/ f.tail # 0) => f.n \in {RSIPeriod + 1, MA20Period}
        /\ \A i \in 1..f.n : CloseAt(f, i) >= 2}

RawColumns ==
    {"Open", "Close", "High", "Low", "Volume", "Amount", "Amplitude",
     "Change_pct", "Change_amount", "Turnover"}

Max2(a, b) == IF a > b THEN a ELSE b

Min2(a, b) == IF a < b THEN a ELSE b

\* pd.DataFrame(): what the source yields when there is no bar
EmptyFrame == [isNone |-> FALSE, index |-> <<>>, columns |-> [c \in {} |-> <<>>]]

None == [isNone |-> TRUE, index |-> <<>>, columns |-> [c \in {} |-> <<>>]]

\* the renamed table of lines 57-74: the date index and the raw columns
PrevAt(f, i) == IF i = 1 THEN CloseAt(f, 1) ELSE CloseAt(f, i - 1)

Table(f) ==
    IF f.n = 0 THEN EmptyFrame ELSE
    LET bars == 1..f.n
    IN  [isNone  |-> FALSE,
         index   |-> [i \in bars |-> i],
         columns |->
           [Open          |-> [i \in bars |-> PrevAt(f, i)],
            Close         |-> [i \in bars |-> CloseAt(f, i)],
            High          |-> [i \in bars |-> Max2(CloseAt(f, i), PrevAt(f, i)) + 1],
            Low           |-> [i \in bars |-> Min2(CloseAt(f, i), PrevAt(f, i)) - 1],
            Volume        |-> [i \in bars |-> 1000],
            Amount        |-> [i \in bars |-> 1000 * CloseAt(f, i)],
            Amplitude     |-> [i \in bars |-> Max2(CloseAt(f, i), PrevAt(f, i))
                                                - Min2(CloseAt(f, i), PrevAt(f, i)) + 2],
            Change_pct    |-> [i \in bars |->
                                 (1000 * (CloseAt(f, i) - PrevAt(f, i))) \div PrevAt(f, i)],
            Change_amount |-> [i \in bars |-> CloseAt(f, i) - PrevAt(f, i)],
            Turnover      |-> [i \in bars |-> 5]]]

----------------------------------------------------------------------------
(* The methods of AShareQuantStrategy, as functions from the object's      *)
(* state to the new state and the outcome seen by the caller.              *)

Outcome(op, kind, value, cause) ==
    [op |-> op, kind |-> kind, value |-> value, cause |-> cause]

NoLabels == [trend |-> "", zone |-> ""]

\* variant: the exception of the data source is not caught
fetch_data_reraise(d, name, src, fails, info) ==
    IF fails
    THEN [data |-> d, stock_name |-> name,
          out |-> Outcome("fetch_data", "raise", "Exception", "exception")]
    ELSE IF src.n = 0
    THEN [data |-> Table(src), stock_name |-> name,
          out |-> Outcome("fetch_data", "return", "False", "empty")]
    ELSE [data |-> Table(src),
          stock_name |-> IF info THEN "name" ELSE symbol,
          out |-> Outcome("fetch_data", "return", "True", "none")]

\* fails: ak.stock_zh_a_hist raises; info: ak.stock_individual_info_em answers
fetch_data(d, name, src, fails, info) ==
    IF fails
    THEN [data |-> d, stock_name |-> name,
          out |-> Outcome("fetch_data", "return", "False", "exception")]
    ELSE IF src.n = 0
    THEN [data |-> Table(src), stock_name |-> name,
          out |-> Outcome("fetch_data", "return", "False", "empty")]
    ELSE [data |-> Table(src),
          stock_name |-> IF info THEN "name" ELSE symbol,
          out |-> Outcome("fetch_data", "return", "True", "none")]

IndicatorColumns(d) ==
    LET close == d.columns["Close"]
        m     == MACD(close)
        bb    == BBANDS(close, BBPeriod)
        kd    == STOCH(d.columns["High"], d.columns["Low"], close)
    IN  [MA5         |-> SMA(close, MA5Period),
         MA10        |-> SMA(close, MA10Period),
         MA20        |-> SMA(close, MA20Period),
         MA60        |-> SMA(close, MA60Period),
         RSI         |-> RSI(close, RSIPeriod),
         MACD        |-> m.macd,
         MACD_Signal |-> m.macdsignal,
         MACD_Hist   |-> m.macdhist,
         BB_Upper    |-> bb.upper,
         BB_Middle   |-> bb.middle,
         BB_Lower    |-> bb.lower,
         K           |-> kd.k,
         D           |-> kd.d,
         J           |-> JLine(kd.k, kd.d)]

\* variant: only keys the table already has are written
Assign_keep(columns, new) ==
    [c \in DOMAIN columns |-> IF c \in DOMAIN new THEN new[c] ELSE columns[c]]

\* df[name] = column for every new column: adds the key or overwrites it
Assign(columns, new) ==
    [c \in DOMAIN columns \cup DOMAIN new |->
        IF c \in DOMAIN new THEN new[c] ELSE columns[c]]

\* variant: the table is replaced by a copy sorted by descending date
calculate_indicators_reversed(d) ==
    IF d.isNone
    THEN [data |-> d,
          out |-> Outcome("calculate_indicators", "return", "None", "no_data")]
    ELSE IF ~({"Close", "High", "Low"} \subseteq DOMAIN d.columns)
    THEN [data |-> d,
          out |-> Outcome("calculate_indicators", "raise", "KeyError", "KeyError")]
    ELSE LET n   == Len(d.index)
             rev == [index   |-> [i \in 1..n |-> d.index[n + 1 - i]],
                     isNone  |-> FALSE,
                     columns |-> [c \in DOMAIN d.columns |->
                                    [i \in 1..n |-> d.columns[c][n + 1 - i]]]]
         IN  [data |-> [rev EXCEPT !.columns = Assign(@, IndicatorColumns(rev))],
              out |-> Outcome("calculate_indicators", "return", "None", "none")]

calculate_indicators(d) ==
    IF d.isNone
    THEN [data |-> d,
          out |-> Outcome("calculate_indicators", "return", "None", "no_data")]
    ELSE IF ~({"Close", "High", "Low"} \subseteq DOMAIN d.columns)
    THEN [data |-> d,
          out |-> Outcome("calculate_indicators", "raise", "KeyError", "KeyError")]
    ELSE [data |-> [d EXCEPT !.columns = Assign(@, IndicatorColumns(d))],
          out |-> Outcome("calculate_indicators", "return", "None", "none")]

\* self.data.iloc[-1]
Latest(d) == [c \in DOMAIN d.columns |-> d.columns[c][Len(d.index)]]

\* variant: the chains are not strict
Trend_nonstrict(latest) ==
    IF Ge(Whole(latest["Close"]), latest["MA5"]) /\ Ge(latest["MA5"], latest["MA20"])
    THEN "Up"
    ELSE IF Le(Whole(latest["Close"]), latest["MA5"]) /\ Le(latest["MA5"], latest["MA20"])
    THEN "Down"
    ELSE "Mixed"

Trend(latest) ==
    IF Gt(Whole(latest["Close"]), latest["MA5"]) /\ Gt(latest["MA5"], latest["MA20"])
    THEN "Up"
    ELSE IF Lt(Whole(latest["Close"]), latest["MA5"]) /\ Lt(latest["MA5"], latest["MA20"])
    THEN "Down"
    ELSE "Mixed"

\* variant: the thresholds belong to the outer zones
Zone_nonstrict(latest) ==
    IF Ge(latest["RSI"], Whole(Overbought)) THEN "Overbought"
    ELSE IF Le(latest["RSI"], Whole(Oversold)) THEN "Oversold"
    ELSE "Normal"

Zone(latest) ==
    IF Gt(latest["RSI"], Whole(Overbought)) THEN "Overbought"
    ELSE IF Lt(latest["RSI"], Whole(Oversold)) THEN "Oversold"
    ELSE "Normal"

show_data_summary(d) ==
    IF d.isNone
    THEN [labels |-> NoLabels,
          out |-> Outcome("show_data_summary", "return", "None", "no_data")]
    ELSE IF Len(d.index) = 0
    THEN [labels |-> NoLabels,
          out |-> Outcome("show_data_summary", "raise", "IndexError", "IndexError")]
    ELSE IF ~({"Close", "Change_pct", "Volume", "MA5", "MA20", "RSI", "MACD"}
                \subseteq DOMAIN d.columns)
    THEN [labels |-> NoLabels,
          out |-> Outcome("show_data_summary", "raise", "KeyError", "KeyError")]
    ELSE [labels |-> [trend |-> Trend(Latest(d)), zone |-> Zone(Latest(d))],
          out |-> Outcome("show_data_summary", "return", "None", "none")]

PlottedColumns ==
    {"Close", "MA5", "MA10", "MA20", "MA60", "BB_Upper", "BB_Lower", "RSI",
     "MACD", "MACD_Signal", "MACD_Hist", "K", "D", "J"}

plot_results(d) ==
    IF d.isNone
    THEN Outcome("plot_results", "return", "None", "no_data")
    ELSE IF ~(PlottedColumns \subseteq DOMAIN d.columns)
    THEN Outcome("plot_results", "raise", "KeyError", "KeyError")
    ELSE Outcome("plot_results", "return", "None", "none")

----------------------------------------------------------------------------
(* State machine: a caller that invokes the methods one at a time, and     *)
(* run_analysis as the sequence of its four calls.  ret is the outcome of  *)
(* the call that completed last, printed the judgments it printed, trace   *)
(* the calls made by the latest run_analysis (forgotten at the next call   *)
(* from outside).                                                          *)

NoOutcome == Outcome("", "", "", "")

Init ==
    /\ source \in Feeds
    /\ data = None
    /\ stock_name = "None"
    /\ pc = "idle"
    /\ trace = <<>>
    /\ ret = NoOutcome
    /\ printed = NoLabels
    /\ calcs = 0

FetchData ==
    /\ pc = "idle"
    /\ \E fails \in BOOLEAN, info \in BOOLEAN :
         LET r == fetch_data(data, stock_name, source, fails, info)
         IN  /\ data' = r.data
             /\ stock_name' = r.stock_name
             /\ ret' = r.out
             /\ calcs' = IF fails THEN calcs ELSE 0
    /\ printed' = NoLabels
    /\ trace' = <<>>
    /\ UNCHANGED <<source, pc>>

\* calcs counts the computations on the current table, up to MaxCalcs
Computed(out) == IF out.cause = "none" THEN 1 ELSE 0

CalculateIndicators ==
    /\ pc = "idle"
    /\ calcs < MaxCalcs
    /\ LET r == calculate_indicators(data)
       IN  /\ data' = r.data
           /\ ret' = r.out
           /\ calcs' = calcs + Computed(r.out)
    /\ printed' = NoLabels
    /\ trace' = <<>>
    /\ UNCHANGED <<source, stock_name, pc>>

ShowDataSummary ==
    /\ pc = "idle"
    /\ LET r == show_data_summary(data)
       IN  /\ printed' = r.labels
           /\ ret' = r.out
    /\ trace' = <<>>
    /\ UNCHANGED <<source, data, stock_name, pc, calcs>>

PlotResults ==
    /\ pc = "idle"
    /\ ret' = plot_results(data)
    /\ printed' = NoLabels
    /\ trace' = <<>>
    /\ UNCHANGED <<source, data, stock_name, pc, calcs>>

\* a raise inside run_analysis leaves it: the caller sees the exception
Propagate(out) == [out EXCEPT !.op = "run_analysis"]

RunAnalysis ==
    /\ pc = "idle"
    /\ pc' = "fetch"
    /\ trace' = <<>>
    /\ ret' = NoOutcome
    /\ printed' = NoLabels
    /\ UNCHANGED <<source, data, stock_name, calcs>>

\* variant: the result of fetch_data is not tested
RunFetch_unchecked ==
    /\ pc = "fetch"
    /\ \E fails \in BOOLEAN, info \in BOOLEAN :
         LET r == fetch_data(data, stock_name, source, fails, info)
         IN  /\ data' = r.data
             /\ stock_name' = r.stock_name
             /\ ret' = r.out
             /\ pc' = "calc"
             /\ calcs' = IF fails THEN calcs ELSE 0
    /\ trace' = Append(trace, "fetch_data")
    /\ printed' = NoLabels
    /\ UNCHANGED source

RunFetch ==
    /\ pc = "fetch"
    /\ \E fails \in BOOLEAN, info \in BOOLEAN :
         LET r == fetch_data(data, stock_name, source, fails, info)
         IN  /\ data' = r.data
             /\ stock_name' = r.stock_name
             /\ ret' = r.out
             /\ pc' = IF r.out.value = "True" THEN "calc" ELSE "return"
             /\ calcs' = IF fails THEN calcs ELSE 0
    /\ trace' = Append(trace, "fetch_data")
    /\ printed' = NoLabels
    /\ UNCHANGED source

RunCalc ==
    /\ pc = "calc"
    /\ LET r == calculate_indicators(data)
       IN  /\ data' = r.data
           /\ ret' = IF r.out.kind = "raise" THEN Propagate(r.out) ELSE r.out
           /\ pc' = IF r.out.kind = "raise" THEN "idle" ELSE "show"
           /\ calcs' = calcs + Computed(r.out)
    /\ trace' = Append(trace, "calculate_indicators")
    /\ printed' = NoLabels
    /\ UNCHANGED <<source, stock_name>>

RunShow ==
    /\ pc = "show"
    /\ LET r == show_data_summary(data)
       IN  /\ printed' = r.labels
           /\ ret' = IF r.out.kind = "raise" THEN Propagate(r.out) ELSE r.out
           /\ pc' = IF r.out.kind = "raise" THEN "idle" ELSE "plot"
    /\ trace' = Append(trace, "show_data_summary")
    /\ UNCHANGED <<source, data, stock_name, calcs>>

RunPlot ==
    /\ pc = "plot"
    /\ LET out == plot_results(data)
       IN  /\ ret' = IF out.kind = "raise" THEN Propagate(out) ELSE out
           /\ pc' = IF out.kind = "raise" THEN "idle" ELSE "return"
    /\ trace' = Append(trace, "plot_results")
    /\ printed' = NoLabels
    /\ UNCHANGED <<source, data, stock_name, calcs>>

\* "return None" of line 232 after a failed fetch, "return self.data" of line 244
RunReturn ==
    /\ pc = "return"
    /\ pc' = "idle"
    /\ ret' = Outcome("run_analysis", "return",
                      IF trace = <<"fetch_data">> THEN "None" ELSE "data",
                      IF trace = <<"fetch_data">> THEN ret.cause ELSE "none")
    /\ printed' = NoLabels
    /\ UNCHANGED <<source, data, stock_name, trace, calcs>>

Next ==
    \/ FetchData
    \/ CalculateIndicators
    \/ ShowDataSummary
    \/ PlotResults
    \/ RunAnalysis
    \/ RunFetch
    \/ RunCalc
    \/ RunShow
    \/ RunPlot
    \/ RunReturn

Spec == Init /\ [][Next]_vars

----------------------------------------------------------------------------
(* Vocabulary of the properties                                            *)

Rows == Len(data.index)

Has(c) == c \in DOMAIN data.columns

CloseCol == data.columns["Close"]

\* closes[Rows - p + 1 .. Rows] summed, straight from the raw column
TrailingSum(p) == SumSeq(CloseCol, Rows - p + 1, Rows)

\* show_data_summary has just printed its two judgments
Shown == ret.op = "show_data_summary" /\ ret.kind = "return" /\ ret.cause = "none"

\* calculate_indicators has just attached its columns
Calculated == ret.op = "calculate_indicators" /\ ret.kind = "return" /\ ret.cause = "none"

LastCell(c) == data.columns[c][Rows]

\* C1: when the latest row has defined close, MA5 and MA20, the printed
\* trend is Up exactly when close > MA5 and MA5 > MA20, Down exactly when
\* close < MA5 and MA5 < MA20, and Mixed otherwise; any equality gives Mixed.
\* The comparisons are stated on the raw closes: 5*close against the sum of
\* the last 5 closes, 4 times that sum against the sum of the last 20.
C1_TrendRule ==
    (Shown /\ ~LastCell("MA5").nan /\ ~LastCell("MA20").nan) =>
        LET c   == CloseCol[Rows]
            s5  == TrailingSum(5)
            s20 == TrailingSum(20)
        IN  /\ printed.trend \in {"Up", "Down", "Mixed"}
            /\ printed.trend = "Up" <=> (5 * c > s5 /\ 4 * s5 > s20)
            /\ printed.trend = "Down" <=> (5 * c < s5 /\ 4 * s5 < s20)
            /\ (5 * c = s5 \/ 4 * s5 = s20) => printed.trend = "Mixed"

\* close equals MA5 while MA5 is below MA20: only the equality keeps it from Down
C1_Witness ==
    /\ Shown /\ ~LastCell("MA5").nan /\ ~LastCell("MA20").nan
    /\ 5 * CloseCol[Rows] = TrailingSum(5)
    /\ 4 * TrailingSum(5) < TrailingSum(20)
    /\ printed.trend = "Mixed"

\* C2: when the latest row has a defined RSI, the printed zone is Overbought
\* exactly when RSI > 70, Oversold exactly when RSI < 30 and Normal otherwise
\* (RSI = 70 and RSI = 30 are Normal); the trend label plays no part.
C2_ZoneRule ==
    (Shown /\ ~LastCell("RSI").nan) =>
        LET r == LastCell("RSI")
            above70 == r.whole > 70 \/ (r.whole = 70 /\ r.num > 0)
            below30 == r.whole < 30
        IN  /\ printed.zone \in {"Overbought", "Oversold", "Normal"}
            /\ printed.zone = "Overbought" <=> above70
            /\ printed.zone = "Oversold" <=> below30
            /\ (r = Whole(70) \/ r = Whole(30)) => printed.zone = "Normal"

\* an upward trend printed together with an oversold RSI
C2_Witness ==
    /\ Shown /\ ~LastCell("RSI").nan
    /\ printed.trend = "Up"
    /\ printed.zone = "Oversold"

\* C3 (as claimed): show_data_summary on a latest row with an undefined MA5,
\* MA20 or RSI cell raises and prints neither a trend nor a zone.
C3_IncompleteRaises ==
    (/\ ret.op = "show_data_summary"
     /\ Has("MA5") /\ Has("MA20") /\ Has("RSI")
     /\ Rows > 0
     /\ (LastCell("MA5").nan \/ LastCell("MA20").nan \/ LastCell("RSI").nan))
    => (ret.kind = "raise" /\ printed = NoLabels)

IndicatorNames ==
    {"MA5", "MA10", "MA20", "MA60", "RSI", "MACD", "MACD_Signal", "MACD_Hist",
     "BB_Upper", "BB_Middle", "BB_Lower", "K", "D", "J"}

\* number of leading undefined cells of each indicator column
Lookback(c) ==
    CASE c = "MA5" -> 4
      [] c = "MA10" -> 9
      [] c = "MA20" -> 19
      [] c = "MA60" -> 59
      [] c = "RSI" -> 14
      [] c \in {"MACD", "MACD_Signal", "MACD_Hist"} -> 33
      [] c \in {"BB_Upper", "BB_Middle", "BB_Lower"} -> 19
      [] c \in {"K", "D", "J"} -> 12

C5_UpperCaseKeys ==
    Calculated =>
        DOMAIN data.columns \ RawColumns =
            {"MA5", "MA10", "MA20", "MA60", "RSI", "MACD", "MACD_SIGNAL",
             "MACD_HIST", "BB_UPPER", "BB_MIDDLE", "BB_LOWER", "K", "D", "J"}

\* C5 (amended): after the indicators are computed the indicator keys are
\* exactly MA5, MA10, MA20, MA60, RSI, MACD, MACD_Signal, MACD_Hist, BB_Upper,
\* BB_Middle, BB_Lower, K, D, J (case-sensitive), each of them can be looked
\* up, and none of the upper-case spellings MACD_SIGNAL, ... is a key.
C5_ColumnKeys ==
    Calculated =>
        /\ DOMAIN data.columns \ RawColumns =
             {"MA5", "MA10", "MA20", "MA60", "RSI", "MACD", "MACD_Signal",
              "MACD_Hist", "BB_Upper", "BB_Middle", "BB_Lower", "K", "D", "J"}
        /\ \A c \in {"MACD_SIGNAL", "MACD_HIST", "BB_UPPER", "BB_MIDDLE", "BB_LOWER"} :
             ~Has(c)

C5_Witness == Calculated /\ Has("MACD_Signal") /\ Has("BB_Middle") /\ Rows >= 34

SMAColumns == <<[name |-> "MA5", p |-> 5], [name |-> "MA10", p |-> 10],
                [name |-> "MA20", p |-> 20], [name |-> "MA60", p |-> 60]>>

\* C6: for p in {5, 10, 20, 60} the SMA column has one cell per close; the
\* cell at position i >= p (index p-1 counting from 0) is the mean of the p
\* closes ending at i, that is p times the cell equals the sum of the window;
\* every earlier cell is undefined.
C6_SMAIsWindowMean ==
    Calculated =>
        \A k \in 1..4 :
            LET p   == SMAColumns[k].p
                col == data.columns[SMAColumns[k].name]
            IN  /\ Len(col) = Rows
                /\ \A i \in 1..Rows :
                     IF i < p THEN col[i].nan
                     ELSE /\ ~col[i].nan
                          /\ p * (col[i].whole * col[i].den + col[i].num)
                               = col[i].den * SumSeq(CloseCol, i - p + 1, i)

\* MA60 defined on the last two rows of a 61-bar table with a fractional mean
C6_Witness ==
    /\ Calculated /\ Rows = 61
    /\ ~data.columns["MA60"][60].nan /\ ~data.columns["MA60"][61].nan
    /\ data.columns["MA60"][59].nan
    /\ data.columns["MA60"][61].num > 0

\* the closes rise from 10.00 by 0.1 per bar
LinearRise == source.slope = 1 /\ source.head = 0 /\ source.tail = 0

\* C7 (as claimed): on the rising series of 30 bars, or on the one that ends
\* at 13.90, the last row has MA5 = 13.70, MA20 = 12.15, trend Up, RSI = 100.
C7_Scenario_12_15 ==
    (Shown /\ LinearRise /\ (Rows = 30 \/ CloseCol[Rows] = 139)) =>
        /\ LastCell("MA5") = Whole(137)
        /\ LastCell("MA20") = Num(121, 1, 2)
        /\ printed.trend = "Up"
        /\ LastCell("RSI") = Whole(100)

\* C7 (amended): closes rising from 10.00 in 0.1 steps reach 13.90 on the
\* 40th bar; there MA5 = 13.70, MA20 = 12.95, the trend is Up and RSI = 100.
\* After 30 bars the close is 12.90, MA5 = 12.70, MA20 = 11.95, the trend is
\* Up and RSI = 100.
C7_Scenario ==
    (Shown /\ LinearRise /\ Rows \in {30, 40}) =>
        /\ CloseCol[1] = 100
        /\ CloseCol[Rows] = (IF Rows = 40 THEN 139 ELSE 129)
        /\ LastCell("MA5") = (IF Rows = 40 THEN Whole(137) ELSE Whole(127))
        /\ LastCell("MA20") = (IF Rows = 40 THEN Num(129, 1, 2) ELSE Num(119, 1, 2))
        /\ printed.trend = "Up"
        /\ LastCell("RSI") = Whole(100)
        /\ printed.zone = "Overbought"

C7_Witness ==
    /\ Shown /\ LinearRise /\ Rows = 40
    /\ CloseCol[Rows] = 139
    /\ LastCell("MA20") = Num(129, 1, 2)
    /\ printed.trend = "Up"

CalcStep == CalculateIndicators \/ RunCalc

ReadStep == ShowDataSummary \/ PlotResults \/ RunShow \/ RunPlot

\* C9: calculate_indicators keeps the rows, the date index and every raw
\* column, and only adds or overwrites the 14 indicator columns; a second
\* computation on the same table leaves every column as the first one made
\* it; show_data_summary and plot_results change no column at all.
C9_Frame ==
    [][/\ CalcStep =>
            /\ data'.isNone = data.isNone
            /\ data'.index = data.index
            /\ \A c \in DOMAIN data.columns \ IndicatorNames :
                 c \in DOMAIN data'.columns /\ data'.columns[c] = data.columns[c]
            /\ DOMAIN data'.columns \subseteq DOMAIN data.columns \cup IndicatorNames
            /\ calcs >= 1 => data' = data
       /\ ReadStep => data' = data]_vars

\* the indicators have been computed twice on the same table
C9_Witness ==
    /\ Calculated /\ calcs = 2
    /\ RawColumns \cup IndicatorNames = DOMAIN data.columns
    /\ Rows >= 20

Steps == <<"fetch_data", "calculate_indicators", "show_data_summary", "plot_results">>

IsPrefix(s, t) == Len(s) <= Len(t) /\ \A i \in 1..Len(s) : s[i] = t[i]

AllIndicators == ~data.isNone /\ Rows >= 1 /\ IndicatorNames \subseteq DOMAIN data.columns

\* C10: run_analysis performs fetch_data, calculate_indicators,
\* show_data_summary, plot_results in this order, each at most once; when
\* fetch_data returns False nothing else runs and run_analysis returns None;
\* otherwise show_data_summary and plot_results run on a table that has all
\* the indicator columns and run_analysis returns that table.
C10_RunOrder ==
    /\ IsPrefix(trace, Steps)
    /\ pc = "fetch" => trace = <<>>
    /\ pc = "calc" =>
         trace = <<"fetch_data">> /\ ret.op = "fetch_data" /\ ret.value = "True"
    /\ pc = "show" => Len(trace) = 2 /\ AllIndicators
    /\ pc = "plot" => Len(trace) = 3 /\ AllIndicators
    /\ pc = "return" =>
         \/ trace = <<"fetch_data">> /\ ret.op = "fetch_data" /\ ret.value = "False"
         \/ trace = Steps /\ AllIndicators
    /\ ret.op = "run_analysis" =>
         /\ pc = "idle" /\ ret.kind = "return"
         /\ \/ ret.value = "None" /\ trace = <<"fetch_data">>
            \/ ret.value = "data" /\ trace = Steps /\ AllIndicators

C10_Witness ==
    /\ ret.op = "run_analysis" /\ ret.value = "data"
    /\ trace = Steps /\ AllIndicators /\ Rows >= 60

====
